---- MODULE Spec2Model ----
(***************************************************************************)
(* Model of api/main.py of the LUFS audio normalizer: the two external-    *)
(* tool adapters (analyze_track, normalize_track), the thread-pool batch   *)
(* run by executor.map, the temporary directories of a request and the     *)
(* /analyze and /normalize handlers.                                       *)
(*                                                                         *)
(* Text (file names, paths, messages, tool output) is a sequence of string *)
(* tokens; f-strings are concatenations of such sequences.  The bytes of   *)
(* the i-th upload are identified by the index i.                          *)
(***************************************************************************)
EXTENDS Integers, Sequences, FiniteSets, TLC

\* ------------------------------------------------------------------ bounds
\* longest upload list of a request
MaxFiles == 3
\* longest upload list of a request that fills the worker pool
MaxPoolJobs == 5

\* ------------------------------------------------------- program constants
\* ThreadPoolExecutor(max_workers=4)
max_workers == 4
\* subprocess.run(..., timeout=60) in analyze_track
ANALYZE_TIMEOUT == 60
\* subprocess.run(..., timeout=300) in normalize_track
NORMALIZE_TIMEOUT == 300
\* subprocess.run(["ffmpeg", "-version"], ..., timeout=5) in health_check
HEALTH_TIMEOUT == 5

\* ------------------------------------------------------------ text helpers
None == <<"None">>

\* str.lower() on one token
LowerToken(t) ==
    CASE t = ".MP3" -> ".mp3"
      [] t = ".WAV" -> ".wav"
      [] OTHER -> t

\* str.lower()
Lower(s) == [k \in DOMAIN s |-> LowerToken(s[k])]

\* str.endswith(suffix)
EndsWith(s, suffix) ==
    /\ Len(s) >= Len(suffix)
    /\ SubSeq(s, Len(s) - Len(suffix) + 1, Len(s)) = suffix

\* sub in s   (substring test)
Contains(s, sub) ==
    \E k \in 0..(Len(s) - Len(sub)) : SubSeq(s, k + 1, k + Len(sub)) = sub

\* position of the last "/" token of a path, 0 when there is none
LastSep(p) ==
    IF \E k \in DOMAIN p : p[k] = "/"
    THEN CHOOSE k \in DOMAIN p : p[k] = "/" /\ \A j \in DOMAIN p : p[j] = "/" => j <= k
    ELSE 0

\* os.path.join(dir, name) for a relative name
PathJoin(dir, name) == dir \o <<"/">> \o name

\* os.path.basename(path)
Basename(p) == SubSeq(p, LastSep(p) + 1, Len(p))

\* directory part of a path (the directory shutil.rmtree is given)
Dirname(p) == SubSeq(p, 1, LastSep(p) - 1)

\* tokens that start with a dot: candidate extensions
DotTokens == {".mp3", ".MP3", ".wav", ".WAV", ".zip"}

\* os.path.splitext(filename) -> <<name, ext>>; a leading dot is no extension
Splitext(f) ==
    IF Len(f) > 1 /\ f[Len(f)] \in DotTokens
    THEN <<SubSeq(f, 1, Len(f) - 1), <<f[Len(f)]>> >>
    ELSE <<f, << >> >>

\* "; ".join(parts)
RECURSIVE Join(_, _)
Join(sep, parts) ==
    IF parts = << >> THEN << >>
    ELSE IF Len(parts) = 1 THEN parts[1]
    ELSE parts[1] \o sep \o Join(sep, Tail(parts))

\* str(n) for the small numbers of the model
IntStr(n) ==
    CASE n = 0 -> "0" [] n = 1 -> "1" [] n = 2 -> "2" [] n = 3 -> "3"
      [] n = 4 -> "4" [] n = 5 -> "5" [] n = 6 -> "6"
      [] n = 200 -> "200" [] n = 400 -> "400" [] n = 500 -> "500"
      [] OTHER -> "n"

\* ------------------------------------------------------------------ inputs
\* file names a client uploads (base names, as browsers send them)
FileNames == { <<"a", ".mp3">>, <<"b", ".MP3">>, <<"track", ".wav">> }

RECURSIVE SeqsUpTo(_, _)
SeqsUpTo(S, n) ==
    IF n = 0 THEN { << >> }
    ELSE LET shorter == SeqsUpTo(S, n - 1)
         IN  shorter \cup { Append(s, x) : s \in { t \in shorter : Len(t) = n - 1 }, x \in S }

Batches == SeqsUpTo(FileNames, MaxFiles)

\* the check of lines 109 and 140
IsMp3(filename) == EndsWith(Lower(filename), <<".mp3">>)

\* ------------------------------------------------------------- HTTP errors
HTTPException(status_code, detail) == [status_code |-> status_code, detail |-> detail]

\* str(e) of an HTTPException: "<status_code>: <detail>"
HTTPExceptionStr(e) == <<IntStr(e.status_code), ": ">> \o e.detail

NoFilesUploaded == HTTPException(400, <<"No files uploaded">>)

\* the detail without the file name
NotAnMp3Unnamed(filename) == HTTPException(400, <<"File is not an MP3">>)

NotAnMp3(filename) == HTTPException(400, <<"File ">> \o filename \o <<" is not an MP3">>)

\* ------------------------------------------------------------- directories
\* tempfile.TemporaryDirectory() of /analyze
AnalyzeTempDir == <<"/tmp", "/", "tmp_1">>
\* str(uuid.uuid4())
SessionId == "uuid_1"
\* tempfile.mkdtemp(prefix=f"input_{session_id}_")
TempInputDir == <<"/tmp", "/", "input_", SessionId, "_", "rnd_1">>
\* tempfile.mkdtemp(prefix=f"output_{session_id}_")
TempOutputDir == <<"/tmp", "/", "output_", SessionId, "_", "rnd_2">>

\* shutil.rmtree(dir, ignore_errors=True) on the set of directories
RmtreeDirs(ds, dir) == ds \ {dir}

\* shutil.rmtree(dir, ignore_errors=True) on the files
RmtreeFiles(f, dir) == [p \in { q \in DOMAIN f : Dirname(q) # dir } |-> f[p]]

\* open(path, "wb").write(content): creates or truncates
WriteFile(f, path, content) == (path :> content) @@ f

\* ------------------------------------------------------- the external tool
\* lines of the tool's error stream
LineIntegrated == <<"Input Integrated", ":", " ", "-14.2", " LUFS">>
LineTruePeak == <<"Input True Peak", ":", " ", "+0.3", " dBTP">>
LineOutput == <<"Output Integrated", ":", " ", "-9.0", " LUFS">>
LineNoColon == <<"Input Integrated", " ", "-14.2", " LUFS">>
LineInvalid == <<"Invalid data found when processing input">>

\* One behaviour of the ffmpeg process: whether the binary is found, how
\* long it runs, its exit status, its error stream and whether it created
\* the output file.
ToolRun(found, seconds, returncode, stderr, wrote) ==
    [found |-> found, seconds |-> seconds, returncode |-> returncode,
     stderr |-> stderr, wrote |-> wrote]

RunOk == ToolRun(TRUE, 10, 0, <<LineIntegrated, LineTruePeak, LineOutput>>, TRUE)
RunFail == ToolRun(TRUE, 10, 1, <<LineInvalid>>, FALSE)
RunSlow == ToolRun(TRUE, 400, 0, <<LineIntegrated, LineTruePeak>>, TRUE)
RunMissing == ToolRun(FALSE, 0, 0, << >>, FALSE)

\* the behaviours a job of a batch can meet
BatchToolRuns == {RunOk, RunFail, RunSlow, RunMissing}

\* subprocess.run(cmd, stderr=PIPE, text=True, timeout=t): raises
\* FileNotFoundError when the binary is absent and TimeoutExpired when the
\* process outlives the limit; a non-zero exit status raises nothing
SubprocessRun(run, timeout) ==
    IF ~run.found
    THEN [exc |-> "FileNotFoundError",
          message |-> <<"[Errno 2] No such file or directory: 'ffmpeg'">>]
    ELSE IF run.seconds > timeout
    THEN [exc |-> "TimeoutExpired", message |-> <<"timed out">>]
    ELSE [exc |-> "none", returncode |-> run.returncode, stderr |-> run.stderr]

\* str.splitlines() joined back: the stream as one text
StderrText(lines) == Join(<<"\n">>, lines)

\* str.split(sep) for a one-token separator
RECURSIVE Split(_, _)
Split(s, sep) ==
    IF \E k \in DOMAIN s : s[k] = sep
    THEN LET k == CHOOSE j \in DOMAIN s : s[j] = sep /\ \A h \in 1..(j - 1) : s[h] # sep
         IN  <<SubSeq(s, 1, k - 1)>> \o Split(SubSeq(s, k + 1, Len(s)), sep)
    ELSE <<s>>

\* str.strip()
RECURSIVE Strip(_)
Strip(s) ==
    IF s = << >> THEN s
    ELSE IF Head(s) = " " THEN Strip(Tail(s))
    ELSE IF s[Len(s)] = " " THEN Strip(SubSeq(s, 1, Len(s) - 1))
    ELSE s

\* str.replace(token, "")
Remove(s, token) == SelectSeq(s, LAMBDA t : t # token)

\* line.split(":")[1].strip().replace(unit, ""); IndexError without a colon
ParseValue(line, unit) ==
    LET parts == Split(line, ":")
    IN  IF Len(parts) < 2
        THEN [raised |-> TRUE, value |-> <<"list index out of range">>]
        ELSE [raised |-> FALSE, value |-> Remove(Strip(parts[2]), unit)]

\* lines 40-47: the scan of the tool's output
RECURSIVE ScanLines(_, _, _)
ScanLines(lines, lufs, tp) ==
    IF lines = << >>
    THEN [raised |-> FALSE, lufs |-> lufs, tp |-> tp]
    ELSE LET line == Head(lines)
             hasI == \E k \in DOMAIN line : line[k] = "Input Integrated"
             hasTP == \E k \in DOMAIN line : line[k] = "Input True Peak"
             pI == ParseValue(line, " LUFS")
             pTP == ParseValue(line, " dBTP")
         IN  IF hasI /\ pI.raised THEN [raised |-> TRUE, message |-> pI.value]
             ELSE IF hasTP /\ pTP.raised THEN [raised |-> TRUE, message |-> pTP.value]
             ELSE ScanLines(Tail(lines),
                            IF hasI THEN pI.value ELSE lufs,
                            IF hasTP THEN pTP.value ELSE tp)

\* what a worker function hands to its future
Returned(value) == [raised |-> FALSE, value |-> value]
Raised(message) == [raised |-> TRUE, message |-> message]

AnalyzeFailure(file_path, status, error) ==
    [filename |-> Basename(file_path), lufs |-> None, tp |-> None,
     status |-> status, error |-> error]

\* analyze_track without its handler for TimeoutExpired and other exceptions
analyze_track_uncaught(file_path, run) ==
    LET result == SubprocessRun(run, ANALYZE_TIMEOUT)
    IN  IF result.exc # "none"
        THEN Raised(result.message)
        ELSE LET scan == ScanLines(result.stderr, None, None)
             IN  IF scan.raised
                 THEN Raised(scan.message)
                 ELSE Returned([filename |-> Basename(file_path), lufs |-> scan.lufs,
                                tp |-> scan.tp, status |-> "success"])

\* analyze_track that reports an error when a metric was not found
analyze_track_strict(file_path, run) ==
    LET result == SubprocessRun(run, ANALYZE_TIMEOUT)
    IN  IF result.exc = "TimeoutExpired"
        THEN Returned(AnalyzeFailure(file_path, "timeout", <<"Analysis timed out">>))
        ELSE IF result.exc # "none"
        THEN Returned(AnalyzeFailure(file_path, "error", result.message))
        ELSE LET scan == ScanLines(result.stderr, None, None)
             IN  IF scan.raised
                 THEN Returned(AnalyzeFailure(file_path, "error", scan.message))
                 ELSE IF scan.lufs = None \/ scan.tp = None
                 THEN Returned(AnalyzeFailure(file_path, "error", <<"metric not found">>))
                 ELSE Returned([filename |-> Basename(file_path), lufs |-> scan.lufs,
                                tp |-> scan.tp, status |-> "success"])

\* lines 30-71
analyze_track(file_path, run) ==
    LET result == SubprocessRun(run, ANALYZE_TIMEOUT)
    IN  IF result.exc = "TimeoutExpired"
        THEN Returned(AnalyzeFailure(file_path, "timeout", <<"Analysis timed out">>))
        ELSE IF result.exc # "none"
        THEN Returned(AnalyzeFailure(file_path, "error", result.message))
        ELSE LET scan == ScanLines(result.stderr, None, None)
             IN  IF scan.raised
                 THEN Returned(AnalyzeFailure(file_path, "error", scan.message))
                 ELSE Returned([filename |-> Basename(file_path), lufs |-> scan.lufs,
                                tp |-> scan.tp, status |-> "success"])

\* lines 73-91
normalize_track(input_path, output_path, run) ==
    LET result == SubprocessRun(run, NORMALIZE_TIMEOUT)
    IN  IF result.exc = "TimeoutExpired"
        THEN Returned([status |-> "error", message |-> <<"Normalization timed out">>])
        ELSE IF result.exc # "none"
        THEN Returned([status |-> "error", message |-> result.message])
        ELSE IF result.returncode = 0
        THEN Returned([status |-> "success", message |-> <<"Normalized successfully">>])
        ELSE Returned([status |-> "error", message |-> StderrText(result.stderr)])

\* health_check that looks at the exit status only when there is one and
\* takes any completed run for a working tool
health_check_any_exit(run) ==
    LET result == SubprocessRun(run, HEALTH_TIMEOUT)
    IN  Returned([status |-> "healthy", ffmpeg_available |-> result.exc = "none"])

\* lines 193-207: a bare except turns every failure of the version command
\* into ffmpeg_available = False
health_check(run) ==
    LET result == SubprocessRun(run, HEALTH_TIMEOUT)
    IN  Returned([status |-> "healthy",
                  ffmpeg_available |-> IF result.exc # "none" THEN FALSE
                                       ELSE result.returncode = 0])

\* lines 151-154: the output path of normalize_file
OutputPath(input_path) ==
    LET filename == Basename(input_path)
        name == Splitext(filename)[1]
        ext == Splitext(filename)[2]
        output_filename == name \o <<"_normalized">> \o ext
    IN  PathJoin(TempOutputDir, output_filename)

\* lines 150-155: (normalize_track(input_path, output_path), output_path)
normalize_file(input_path, run) ==
    LET outcome == normalize_track(input_path, OutputPath(input_path), run)
    IN  IF outcome.raised THEN outcome
        ELSE Returned([result |-> outcome.value, output_path |-> OutputPath(input_path)])

\* the external process creates (or, with -y, overwrites) the output file
ToolWrites(f, output_path, run, job) ==
    IF run.found /\ run.wrote
    THEN WriteFile(f, output_path,
                   [writers |-> (IF output_path \in DOMAIN f THEN f[output_path].writers ELSE {})
                                 \cup {job}])
    ELSE f

VARIABLES
    endpoint,      \* "analyze" or "normalize": the handler that runs
    files,         \* the uploaded file names, in upload order
    pc,            \* position of the handler
    dirs,          \* temporary directories that exist on disk
    fs,            \* files on disk: path -> content
    input_files,   \* temp_files / input_files: paths staged so far
    futures,       \* the futures of executor.map, in submission order
    attempts,      \* per job, the number of external processes started
    completed,     \* job indices in order of completion
    response,      \* the HTTP response, once there is one
    adapter_call,  \* a single adapter call: endpoint kind, path and tool behaviour
    adapter_outcome, \* what that adapter call returned
    reqs           \* concurrent /normalize requests: position and directories of each

vars == <<reqs, adapter_call, adapter_outcome, endpoint, files, pc, dirs, fs, input_files, futures, attempts, completed, response>>

NoResponse == [status |-> 0]
NoCall == [mode |-> "none"]
NoOutcome == [raised |-> FALSE, value |-> [status |-> "none"]]

Init ==
    /\ reqs = << >>
    /\ adapter_call = NoCall
    /\ adapter_outcome = NoOutcome
    /\ endpoint \in {"analyze", "normalize"}
    /\ files \in Batches
    /\ pc = "received"
    /\ dirs = {}
    /\ fs = << >>
    /\ input_files = << >>
    /\ futures = << >>
    /\ attempts = [i \in 1..Len(files) |-> 0]
    /\ completed = << >>
    /\ response = NoResponse

\* the response FastAPI builds from an HTTPException
ErrorResponse(e) == [status |-> e.status_code, detail |-> e.detail]

\* the directories of the running handler
InputDir == IF endpoint = "analyze" THEN AnalyzeTempDir ELSE TempInputDir

\* the catch-all without its two rmtree calls
NormalizeExceptNoCleanup(message) ==
    /\ UNCHANGED <<dirs, fs>>
    /\ response' = [status |-> 500, detail |-> message]
    /\ pc' = "done"

\* lines 187-191: the catch-all of normalize_files; message is str(e)
NormalizeExcept(message) ==
    /\ dirs' = RmtreeDirs(RmtreeDirs(dirs, TempInputDir), TempOutputDir)
    /\ fs' = RmtreeFiles(RmtreeFiles(fs, TempInputDir), TempOutputDir)
    /\ response' = ErrorResponse(HTTPException(500, message))
    /\ pc' = "done"

\* an exception leaving the with-block of analyze_files: the context manager
\* removes the directory and the HTTPException becomes the response
AnalyzeRaise(e) ==
    /\ dirs' = RmtreeDirs(dirs, AnalyzeTempDir)
    /\ fs' = RmtreeFiles(fs, AnalyzeTempDir)
    /\ response' = ErrorResponse(e)
    /\ pc' = "done"

\* the empty-list check of /normalize moved into the try block, after the
\* directories are created: the catch-all removes them and answers 500
ReceiveCheckInTry ==
    /\ pc = "received"
    /\ IF files = << >>
       THEN /\ response' = IF endpoint = "analyze"
                           THEN ErrorResponse(NoFilesUploaded)
                           ELSE ErrorResponse(HTTPException(500, HTTPExceptionStr(NoFilesUploaded)))
            /\ pc' = "done"
            /\ UNCHANGED dirs
       ELSE /\ dirs' = IF endpoint = "analyze"
                       THEN dirs \cup {AnalyzeTempDir}
                       ELSE dirs \cup {TempInputDir, TempOutputDir}
            /\ pc' = "staging"
            /\ UNCHANGED response
    /\ UNCHANGED <<reqs, adapter_call, adapter_outcome, endpoint, files, fs, input_files, futures, attempts, completed>>

\* lines 100-104 and 127-135: the empty-list check and the creation of the
\* temporary directories
Receive ==
    /\ pc = "received"
    /\ IF files = << >>
       THEN /\ response' = ErrorResponse(NoFilesUploaded)
            /\ pc' = "done"
            /\ UNCHANGED dirs
       ELSE /\ dirs' = IF endpoint = "analyze"
                       THEN dirs \cup {AnalyzeTempDir}
                       ELSE dirs \cup {TempInputDir, TempOutputDir}
            /\ pc' = "staging"
            /\ UNCHANGED response
    /\ UNCHANGED <<reqs, adapter_call, adapter_outcome, endpoint, files, fs, input_files, futures, attempts, completed>>

\* lines 108-116 and 139-147: one iteration of the staging loop
StageFile ==
    /\ pc = "staging"
    /\ Len(input_files) < Len(files)
    /\ LET i == Len(input_files) + 1
           filename == files[i]
           path == PathJoin(InputDir, filename)
       IN  IF ~IsMp3(filename)
           THEN /\ IF endpoint = "analyze"
                   THEN AnalyzeRaise(NotAnMp3(filename))
                   ELSE NormalizeExcept(HTTPExceptionStr(NotAnMp3(filename)))
                /\ UNCHANGED input_files
           ELSE /\ fs' = WriteFile(fs, path, [upload |-> i])
                /\ input_files' = Append(input_files, path)
                /\ UNCHANGED <<dirs, response, pc>>
    /\ UNCHANGED <<reqs, adapter_call, adapter_outcome, endpoint, files, futures, attempts, completed>>

\* a future of the executor
PendingFuture == [state |-> "pending"]
RunningFuture(input) == [state |-> "running", input |-> input]
DoneFuture(input, outcome) == [state |-> "done", input |-> input, outcome |-> outcome]

AllDone == \A i \in DOMAIN futures : futures[i].state = "done"

NumRunning == Cardinality({ i \in DOMAIN futures : futures[i].state = "running" })

\* the pool is started as soon as one file is staged
StagingStarted == Len(input_files) >= 1

\* the staging loop of lines 108-116 and 139-147 has run over every upload
StagingComplete == Len(input_files) = Len(files)

\* lines 119-120 and 157-158: executor.map submits one call per staged path
Schedule ==
    /\ pc = "staging"
    /\ StagingComplete
    /\ futures' = [i \in DOMAIN input_files |-> PendingFuture]
    /\ pc' = "scheduled"
    /\ UNCHANGED <<reqs, adapter_call, adapter_outcome, endpoint, files, dirs, fs, input_files, attempts, completed, response>>

\* a pool that starts a thread for every queued job
CanStartUnbounded(i) ==
    /\ futures[i].state = "pending"
    /\ \A j \in 1..(i - 1) : futures[j].state # "pending"

\* a worker thread may take job i from the queue: the queue is first-in
\* first-out and the pool has max_workers threads
CanStart(i) ==
    /\ futures[i].state = "pending"
    /\ \A j \in 1..(i - 1) : futures[j].state # "pending"
    /\ NumRunning < max_workers

\* a worker thread calls the worker function, which starts the external
\* process on the staged file
JobStart(i) ==
    /\ pc = "scheduled"
    /\ CanStart(i)
    /\ futures' = [futures EXCEPT ![i] = RunningFuture(fs[input_files[i]].upload)]
    /\ attempts' = [attempts EXCEPT ![i] = @ + 1]
    /\ UNCHANGED <<reqs, adapter_call, adapter_outcome, endpoint, files, pc, dirs, fs, input_files, completed, response>>

\* the worker function of the endpoint, applied to one staged path
Worker(input_path, run) ==
    IF endpoint = "analyze"
    THEN analyze_track(input_path, run)
    ELSE normalize_file(input_path, run)

\* a failed job cancels the jobs still in the queue
FinishFutureFailFast(fut, i, outcome) ==
    LET value == outcome.value
        status == IF "status" \in DOMAIN value THEN value.status ELSE value.result.status
    IN  [j \in DOMAIN fut |->
            IF j = i THEN DoneFuture(fut[i].input, outcome)
            ELSE IF fut[j].state = "pending" /\ status # "success"
            THEN DoneFuture(0, outcome)
            ELSE fut[j]]

\* the future of job i once its worker function has returned
FinishFuture(fut, i, outcome) ==
    [fut EXCEPT ![i] = DoneFuture(fut[i].input, outcome)]

\* the external process of job i ends (or is killed at its time limit) and
\* the worker function returns
JobFinish(i, run) ==
    /\ pc = "scheduled"
    /\ futures[i].state = "running"
    /\ futures' = FinishFuture(futures, i, Worker(input_files[i], run))
    /\ fs' = IF endpoint = "normalize"
             THEN ToolWrites(fs, OutputPath(input_files[i]), run, i)
             ELSE fs
    /\ completed' = Append(completed, i)
    /\ UNCHANGED <<reqs, adapter_call, adapter_outcome, endpoint, files, pc, dirs, input_files, attempts, response>>

\* the results in the order in which the jobs completed
ExecutorMapAsCompleted(fut, order) == [k \in DOMAIN order |-> fut[order[k]].outcome.value]

\* list(executor.map(fn, paths)): the results in submission order
ExecutorMap(fut, order) == [i \in DOMAIN fut |-> fut[i].outcome.value]

\* lines 161-167: errors and successful_files
RECURSIVE Classify(_, _)
Classify(results, paths) ==
    IF results = << >> \/ paths = << >>
    THEN [errors |-> << >>, successful_files |-> << >>]
    ELSE LET rest == Classify(Tail(results), Tail(paths))
             result == Head(results).result
             output_path == Head(results).output_path
         IN  IF result.status = "error"
             THEN [errors |-> <<Basename(Head(paths)) \o <<": ">> \o result.message>>
                                \o rest.errors,
                   successful_files |-> rest.successful_files]
             ELSE [errors |-> rest.errors,
                   successful_files |-> <<output_path>> \o rest.successful_files]

\* the detail with the first error only
AllFailedFirstOnly(errors) ==
    HTTPException(500, <<"All files failed to normalize: ">> \o errors[1])

AllFailed(errors) ==
    HTTPException(500, <<"All files failed to normalize: ">> \o Join(<<"; ">>, errors))

\* line 173
ZipPath == PathJoin(TempOutputDir, <<"normalized_audio_", SessionId, ".zip">>)

\* zipf.write(file_path) without an archive name: entries stored under
\* their paths
ZipEntriesFullPath(f, successful_files) ==
    [k \in DOMAIN successful_files |->
        [arcname |-> successful_files[k], data |-> f[successful_files[k]]]]

\* lines 174-176: one entry per successful file, stored under its base name
ZipEntries(f, successful_files) ==
    [k \in DOMAIN successful_files |->
        [arcname |-> Basename(successful_files[k]), data |-> f[successful_files[k]]]]

\* lines 179-185
FileResponse(path, filename) ==
    [status |-> 200, path |-> path, media_type |-> "application/zip",
     filename |-> filename, sent |-> FALSE]

\* lines 120-122: the batch is complete, the directory is removed and the
\* results are returned
AnalyzeReturn ==
    /\ pc = "scheduled"
    /\ endpoint = "analyze"
    /\ futures # << >>
    /\ AllDone
    /\ IF \E i \in DOMAIN futures : futures[i].outcome.raised
       THEN AnalyzeRaise(HTTPException(500, <<"Internal Server Error">>))
       ELSE /\ dirs' = RmtreeDirs(dirs, AnalyzeTempDir)
            /\ fs' = RmtreeFiles(fs, AnalyzeTempDir)
            /\ response' = [status |-> 200, results |-> ExecutorMap(futures, completed)]
            /\ pc' = "done"
    /\ UNCHANGED <<reqs, adapter_call, adapter_outcome, endpoint, files, input_files, futures, attempts, completed>>

\* the archive is written, both directories are removed as the handler
\* returns (a finally block) and the file response is handed out afterwards
ReturnFileResponseAfterCleanup(successful_files) ==
    /\ fs' = RmtreeFiles(RmtreeFiles(fs, TempInputDir), TempOutputDir)
    /\ dirs' = RmtreeDirs(RmtreeDirs(dirs, TempInputDir), TempOutputDir)
    /\ response' = FileResponse(ZipPath,
            <<"normalized_audio_", IntStr(Len(successful_files)), "_files.zip">>)
    /\ pc' = "sending"

\* lines 172-185: the archive is written and the handler returns the file
\* response; nothing is removed yet
ReturnFileResponse(successful_files) ==
    /\ fs' = WriteFile(fs, ZipPath, [entries |-> ZipEntries(fs, successful_files)])
    /\ response' = FileResponse(ZipPath,
            <<"normalized_audio_", IntStr(Len(successful_files)), "_files.zip">>)
    /\ pc' = "sending"
    /\ UNCHANGED dirs

\* lines 158-185: the batch is complete; classification, the archive and the
\* file response, or the error of a batch without success
NormalizeAggregate ==
    /\ pc = "scheduled"
    /\ endpoint = "normalize"
    /\ futures # << >>
    /\ AllDone
    /\ IF \E i \in DOMAIN futures : futures[i].outcome.raised
       THEN NormalizeExcept(<<"worker raised">>)
       ELSE LET results == ExecutorMap(futures, completed)
                c == Classify(results, input_files)
            IN  IF c.successful_files = << >>
                THEN NormalizeExcept(HTTPExceptionStr(AllFailed(c.errors)))
                ELSE ReturnFileResponse(c.successful_files)
    /\ UNCHANGED <<reqs, adapter_call, adapter_outcome, endpoint, files, input_files, futures, attempts, completed>>

\* lines 183-184: the background callable of the file response
Background ==
    /\ dirs' = RmtreeDirs(RmtreeDirs(dirs, TempInputDir), TempOutputDir)
    /\ fs' = RmtreeFiles(RmtreeFiles(fs, TempInputDir), TempOutputDir)

\* the file response sends the archive (nothing when the file is gone), then
\* calls its background callable
SendComplete ==
    /\ pc = "sending"
    /\ response' = [response EXCEPT !.sent = TRUE] @@
                   [body |-> IF response.path \in DOMAIN fs
                             THEN fs[response.path].entries
                             ELSE << >>]
    /\ Background
    /\ pc' = "done"
    /\ UNCHANGED <<reqs, adapter_call, adapter_outcome, endpoint, files, input_files, futures, attempts, completed>>

Next ==
    \/ Receive
    \/ StageFile
    \/ Schedule
    \/ \E i \in DOMAIN futures : JobStart(i)
    \/ \E i \in DOMAIN futures : \E run \in BatchToolRuns : JobFinish(i, run)
    \/ AnalyzeReturn
    \/ NormalizeAggregate
    \/ SendComplete

Spec == Init /\ [][Next]_vars

\* ------------------------------------------------- the adapters on their own
\* error streams the tool can leave behind
StderrCases ==
    { <<LineIntegrated, LineTruePeak, LineOutput>>, <<LineIntegrated>>, <<LineTruePeak>>,
      <<LineOutput>>, <<LineInvalid>>, <<LineNoColon, LineTruePeak>> }

\* run times below the analyze limit, between the two limits, above both
RunSeconds == {10, 100, 400}

AdapterToolRuns ==
    {RunMissing} \cup
    { ToolRun(TRUE, sec, rc, err, rc = 0) : sec \in RunSeconds, rc \in {0, 1}, err \in StderrCases }

\* behaviours of the version command: absent, or ending within or after the
\* limit with either exit status
HealthRuns ==
    {RunMissing} \cup { ToolRun(TRUE, sec, rc, << >>, FALSE) : sec \in {1, 10}, rc \in {0, 1} }

AdapterCalls ==
    { [mode |-> m, path |-> PathJoin(TempInputDir, f), run |-> r] :
        m \in {"analyze", "normalize"}, f \in { g \in FileNames : IsMp3(g) },
        r \in AdapterToolRuns }
    \cup { [mode |-> "health", path |-> << >>, run |-> r] : r \in HealthRuns }

AdapterInit ==
    /\ reqs = << >>
    /\ adapter_call \in AdapterCalls
    /\ adapter_outcome = NoOutcome
    /\ endpoint = "none"
    /\ files = << >>
    /\ pc = "adapter"
    /\ dirs = {}
    /\ fs = << >>
    /\ input_files = << >>
    /\ futures = << >>
    /\ attempts = << >>
    /\ completed = << >>
    /\ response = NoResponse

handlerVars == <<reqs, endpoint, files, pc, dirs, fs, input_files, futures, attempts, completed, response>>

\* one call of analyze_track
AnalyzeCall ==
    /\ adapter_call.mode = "analyze"
    /\ adapter_outcome = NoOutcome
    /\ adapter_outcome' = analyze_track(adapter_call.path, adapter_call.run)
    /\ UNCHANGED <<adapter_call, handlerVars>>

\* one call of normalize_track
NormalizeCall ==
    /\ adapter_call.mode = "normalize"
    /\ adapter_outcome = NoOutcome
    /\ adapter_outcome' = normalize_track(adapter_call.path, OutputPath(adapter_call.path), adapter_call.run)
    /\ UNCHANGED <<adapter_call, handlerVars>>

\* one request to /health
HealthCall ==
    /\ adapter_call.mode = "health"
    /\ adapter_outcome = NoOutcome
    /\ adapter_outcome' = health_check(adapter_call.run)
    /\ UNCHANGED <<adapter_call, handlerVars>>

AdapterNext ==
    \/ AnalyzeCall
    \/ NormalizeCall
    \/ HealthCall

AdapterSpec == AdapterInit /\ [][AdapterNext]_vars

\* ------------------------------------------------------------------ claims
AdapterReturned(mode) == adapter_call.mode = mode /\ adapter_outcome # NoOutcome

\* C7: when the tool exceeds the 300-second limit during Normalize, the
\* outcome has status "timeout", not "error", and its message differs from
\* the messages of other failures.
C7_NormalizeTimeoutStatus ==
    (AdapterReturned("normalize") /\ adapter_call.run.found /\ adapter_call.run.seconds > NORMALIZE_TIMEOUT)
        => /\ adapter_outcome.value.status = "timeout"
           /\ adapter_outcome.value.message = <<"Normalization timed out">>

\* C10: Analyze returns status "error" with the failure detail as message on
\* every invocation failure other than a timeout: tool missing, non-zero
\* exit status, I/O error.
C10_AnalyzeErrorStatus ==
    (/\ AdapterReturned("analyze")
     /\ \/ ~adapter_call.run.found
        \/ adapter_call.run.seconds <= ANALYZE_TIMEOUT /\ adapter_call.run.returncode # 0)
        => /\ adapter_outcome.value.status = "error"
           /\ "error" \in DOMAIN adapter_outcome.value

\* C3: a /normalize batch with a file whose name does not end in .mp3 is
\* answered with HTTP 400 and no external process is started for any file.
C3_NormalizeBadExtension400 ==
    (endpoint = "normalize" /\ pc = "done" /\ \E i \in DOMAIN files : ~IsMp3(files[i]))
        => /\ response.status = 400
           /\ \A i \in DOMAIN attempts : attempts[i] = 0

\* the batch of the request has run to its end
BatchDone == futures # << >> /\ AllDone

\* the status of job i's outcome
JobStatus(i) ==
    IF endpoint = "analyze"
    THEN futures[i].outcome.value.status
    ELSE futures[i].outcome.value.result.status

AllAccepted == files # << >> /\ \A i \in DOMAIN files : IsMp3(files[i])

\* C1: for every non-empty batch of accepted uploads to /analyze and every
\* completion order of the jobs, the returned results list is as long as the
\* upload list and results[i].filename is the name of the i-th upload.
C1_AnalyzeResultsInInputOrder ==
    (endpoint = "analyze" /\ response.status = 200)
        => /\ Len(response.results) = Len(files)
           /\ \A i \in DOMAIN files : response.results[i].filename = files[i]

\* a returned batch whose second job completed before its first
C1_Witness ==
    /\ endpoint = "analyze"
    /\ response.status = 200
    /\ Len(files) >= 2
    /\ files[1] # files[2]
    /\ completed[1] = 2

\* C2: once a /normalize request that created temporary directories has
\* completed its response, file or error, neither the input directory nor the
\* output directory nor any file in them (the archive included) is on disk.
C2_NormalizeWorkspaceRemoved ==
    (endpoint = "normalize" /\ pc = "done")
        => /\ TempInputDir \notin dirs
           /\ TempOutputDir \notin dirs
           /\ \A p \in DOMAIN fs : Dirname(p) \notin {TempInputDir, TempOutputDir}

\* a completed file response
C2_Witness ==
    /\ endpoint = "normalize"
    /\ pc = "done"
    /\ response.status = 200
    /\ response.sent
    /\ Len(response.body) >= 1

\* C4: an /analyze batch with a file whose name does not end in .mp3 is
\* answered with HTTP 400 naming such a file, and no external process is
\* started for any file of the batch, the accepted files before it included.
C4_AnalyzeBadExtension400 ==
    (endpoint = "analyze" /\ \E i \in DOMAIN files : ~IsMp3(files[i]))
        => /\ \A i \in DOMAIN attempts : attempts[i] = 0
           /\ pc = "done" =>
                /\ response.status = 400
                /\ \E i \in DOMAIN files : ~IsMp3(files[i]) /\ Contains(response.detail, files[i])

\* the rejected batch has an accepted, already staged file before the bad one
C4_Witness ==
    /\ endpoint = "analyze"
    /\ pc = "done"
    /\ Len(files) >= 2
    /\ IsMp3(files[1])
    /\ files[2] = <<"track", ".wav">>
    /\ response.status = 400

\* the entries of the archive: on disk while it is sent, in the body afterwards
ArchiveEntries == IF pc = "sending" THEN fs[ZipPath].entries ELSE response.body

\* C5: when a /normalize batch has a successful job, the response is an
\* archive with exactly the outputs of the successful jobs: one entry per
\* success, holding that job's output, and nothing a failed job wrote.
C5_ArchiveExactlySuccesses ==
    (/\ endpoint = "normalize"
     /\ pc \in {"sending", "done"}
     /\ BatchDone
     /\ \E i \in DOMAIN futures : JobStatus(i) = "success")
        => /\ response.status = 200
           /\ Len(ArchiveEntries) = Cardinality({ i \in DOMAIN futures : JobStatus(i) = "success" })
           /\ \A i \in DOMAIN futures :
                IF JobStatus(i) = "success"
                THEN \E k \in DOMAIN ArchiveEntries :
                        /\ ArchiveEntries[k].arcname = Basename(OutputPath(input_files[i]))
                        /\ i \in ArchiveEntries[k].data.writers
                ELSE \A k \in DOMAIN ArchiveEntries : i \notin ArchiveEntries[k].data.writers

\* C6: a /normalize batch in which every job fails is answered with HTTP 500,
\* the message contains the file name of every failed job, and no archive is
\* written.
C6_AllFailed500 ==
    (endpoint = "normalize" /\ BatchDone /\ \A i \in DOMAIN futures : JobStatus(i) # "success")
        => /\ ZipPath \notin DOMAIN fs
           /\ pc \in {"scheduled", "done"}
           /\ pc = "done" =>
                /\ response.status = 500
                /\ \A i \in DOMAIN files : Contains(response.detail, files[i])

\* a failed batch of two differently named files
C6_Witness ==
    /\ endpoint = "normalize"
    /\ pc = "done"
    /\ BatchDone
    /\ Len(files) >= 2
    /\ files[1] # files[2]
    /\ \A i \in DOMAIN futures : JobStatus(i) # "success"

\* C8: in a batch of either endpoint every job is attempted exactly once and
\* has exactly one outcome; a job that fails or times out takes away no other
\* job's attempt or outcome.
C8_EveryJobOnce ==
    /\ \A i \in DOMAIN attempts : attempts[i] <= 1
    /\ \A i \in DOMAIN futures : (futures[i].state # "pending") = (attempts[i] = 1)
    /\ \A k, m \in DOMAIN completed : completed[k] = completed[m] => k = m
    /\ \A i \in DOMAIN futures :
            (futures[i].state = "done") = (\E k \in DOMAIN completed : completed[k] = i)
    /\ (pc \in {"sending", "done"} /\ futures # << >>) =>
            /\ Len(futures) = Len(files)
            /\ \A i \in DOMAIN files :
                    /\ attempts[i] = 1
                    /\ futures[i].state = "done"
                    /\ ~futures[i].outcome.raised
            /\ (endpoint = "analyze") => Len(response.results) = Len(files)

\* a finished batch whose first job failed and whose later job succeeded
C8_Witness ==
    /\ pc = "done"
    /\ BatchDone
    /\ Len(files) >= 2
    /\ JobStatus(1) # "success"
    /\ JobStatus(2) = "success"
    /\ completed[1] = 1

\* C9: a non-empty /analyze batch of accepted files is answered with HTTP 200
\* and one status per file, also when every job ended in error or timeout.
C9_AnalyzeAlways200 ==
    (endpoint = "analyze" /\ AllAccepted /\ pc = "done")
        => /\ response.status = 200
           /\ Len(response.results) = Len(files)
           /\ \A i \in DOMAIN files :
                response.results[i].status \in {"success", "error", "timeout"}

\* an answered batch without a single success
C9_Witness ==
    /\ endpoint = "analyze"
    /\ pc = "done"
    /\ Len(files) >= 2
    /\ response.status = 200
    /\ \A i \in DOMAIN response.results : response.results[i].status \in {"error", "timeout"}
    /\ \E i \in DOMAIN response.results : response.results[i].status = "timeout"

\* ------------------------------------------- batches larger than the pool
\* upload lists of accepted names, long enough to keep every worker busy
PoolBatches ==
    { [k \in 1..n |-> IF k % 2 = 1 THEN <<"a", ".mp3">> ELSE <<"b", ".MP3">>] :
        n \in 1..MaxPoolJobs }

\* the behaviours of the tool in these batches: in time, or over the limit
PoolToolRuns == {RunOk, RunSlow}

PoolInit ==
    /\ reqs = << >>
    /\ adapter_call = NoCall
    /\ adapter_outcome = NoOutcome
    /\ endpoint \in {"analyze", "normalize"}
    /\ files \in PoolBatches
    /\ pc = "received"
    /\ dirs = {}
    /\ fs = << >>
    /\ input_files = << >>
    /\ futures = << >>
    /\ attempts = [i \in 1..Len(files) |-> 0]
    /\ completed = << >>
    /\ response = NoResponse

PoolNext ==
    \/ Receive
    \/ StageFile
    \/ Schedule
    \/ \E i \in DOMAIN futures : JobStart(i)
    \/ \E i \in DOMAIN futures : \E run \in PoolToolRuns : JobFinish(i, run)
    \/ AnalyzeReturn
    \/ NormalizeAggregate
    \/ SendComplete

PoolSpec == PoolInit /\ [][PoolNext]_vars

\* C11: during a batch at most 4 external processes run at the same time,
\* for every batch size and every interleaving of job starts and completions.
C11_AtMostFourRunning ==
    /\ NumRunning <= 4
    /\ Cardinality({ i \in DOMAIN attempts : attempts[i] > 0 })
         - Len(completed) <= 4

\* four processes run while a fifth job waits in the queue
C11_Witness ==
    /\ NumRunning = 4
    /\ \E i \in DOMAIN futures : futures[i].state = "pending"

\* C12: within a batch no two concurrent jobs read or write the same file:
\* the input path and the output path of a job are used by that job only,
\* also when two uploads carry the same file name.
C12_JobsUseOwnPaths ==
    \A i, j \in DOMAIN futures :
        (i # j /\ futures[i].state = "running" /\ futures[j].state = "running")
            => /\ input_files[i] # input_files[j]
               /\ OutputPath(input_files[i]) # OutputPath(input_files[j])

\* C19: from its staging to the teardown of the workspace the content at a
\* job's input path is the upload it was staged for, and each job is run on
\* the bytes uploaded for it.
C19_StagedInputImmutable ==
    /\ \A i \in DOMAIN input_files :
            input_files[i] \in DOMAIN fs => fs[input_files[i]].upload = i
    /\ \A i \in DOMAIN futures :
            futures[i].state # "pending" => futures[i].input = i

\* C13: on the success path of /normalize nothing is removed when the handler
\* returns: the output directory and the archive stay on disk until the body
\* has been sent, and the body sent is the archive.
C13_TeardownAfterSend ==
    /\ (endpoint = "normalize" /\ pc = "sending")
            => /\ ~response.sent
               /\ TempInputDir \in dirs
               /\ TempOutputDir \in dirs
               /\ ZipPath \in DOMAIN fs
    /\ (endpoint = "normalize" /\ pc = "done" /\ response.status = 200)
            => /\ response.sent
               /\ Len(response.body) >= 1

\* the handler has returned the file response and the body is not sent yet
C13_Witness ==
    /\ endpoint = "normalize"
    /\ pc = "sending"
    /\ response.status = 200
    /\ ~response.sent
    /\ ZipPath \in DOMAIN fs

\* the jobs of the batch that ended with status success
SuccessJobs == { i \in DOMAIN futures : JobStatus(i) = "success" }

\* the download name for n files
DownloadName(n) == <<"normalized_audio_", IntStr(n), "_files.zip">>

\* the archive has one entry per success, each named by Name(upload name),
\* and no entry name has a directory part
ArchiveNamedBy(Name(_)) ==
    /\ response.filename = DownloadName(Cardinality(SuccessJobs))
    /\ Len(ArchiveEntries) = Cardinality(SuccessJobs)
    /\ \A i \in SuccessJobs :
            \E k \in DOMAIN ArchiveEntries : ArchiveEntries[k].arcname = Name(files[i])
    /\ \A k \in DOMAIN ArchiveEntries :
            /\ \E i \in SuccessJobs : ArchiveEntries[k].arcname = Name(files[i])
            /\ \A h \in DOMAIN ArchiveEntries[k].arcname : ArchiveEntries[k].arcname[h] # "/"

FileResponseOut == endpoint = "normalize" /\ response.status = 200

\* <stem>_normalized.mp3
NormalizedMp3Name(filename) == Splitext(filename)[1] \o <<"_normalized", ".mp3">>

\* <stem>_normalized<extension as uploaded>
NormalizedSameExtName(filename) == Splitext(filename)[1] \o <<"_normalized">> \o Splitext(filename)[2]

\* C15 as stated: the download is named normalized_audio_<successCount>_files.zip
\* and the archive holds one entry per success, named <stem>_normalized.mp3 by
\* base name only.
C15_EntriesNamedMp3 == FileResponseOut => ArchiveNamedBy(NormalizedMp3Name)

\* C15 as amended: the same, with each entry named <stem>_normalized<ext>,
\* ext being the extension of the upload as the client wrote it.
C15_EntriesKeepExtension == FileResponseOut => ArchiveNamedBy(NormalizedSameExtName)

\* an archive with the output of an upload named b.MP3, from a batch in which
\* another job failed
C15_Witness ==
    /\ FileResponseOut
    /\ pc = "sending"
    /\ Cardinality(SuccessJobs) < Len(files)
    /\ \E k \in DOMAIN ArchiveEntries : ArchiveEntries[k].arcname = <<"b", "_normalized", ".MP3">>

\* the tool's output has no line with this label
LacksLine(stderr, label) ==
    \A k \in DOMAIN stderr : \A h \in DOMAIN stderr[k] : stderr[k][h] # label

\* C16: when the tool ends within the limit during Analyze and its output
\* lacks the integrated-loudness line, the true-peak line or both, the
\* outcome has status "success" and the field of each absent line is unset.
C16_MissingMetricStillSuccess ==
    (/\ AdapterReturned("analyze")
     /\ adapter_call.run.found
     /\ adapter_call.run.seconds <= ANALYZE_TIMEOUT
     /\ \/ LacksLine(adapter_call.run.stderr, "Input Integrated")
        \/ LacksLine(adapter_call.run.stderr, "Input True Peak"))
        => /\ ~adapter_outcome.raised
           /\ adapter_outcome.value.status = "success"
           /\ LacksLine(adapter_call.run.stderr, "Input Integrated")
                => adapter_outcome.value.lufs = None
           /\ LacksLine(adapter_call.run.stderr, "Input True Peak")
                => adapter_outcome.value.tp = None

\* an analysis whose output had the loudness line and no true-peak line
C16_Witness ==
    /\ AdapterReturned("analyze")
    /\ adapter_call.run.seconds <= ANALYZE_TIMEOUT
    /\ adapter_call.run.stderr = <<LineIntegrated>>
    /\ adapter_outcome.value.status = "success"
    /\ adapter_outcome.value.lufs = <<"-14.2">>
    /\ adapter_outcome.value.tp = None

\* C17: /health always answers with status healthy; ffmpeg_available is true
\* exactly when the version command exits with status zero within 5
\* seconds, false when the binary is absent or the command exits non-zero or
\* runs over the limit.
C17_HealthNeverFails ==
    AdapterReturned("health")
        => /\ ~adapter_outcome.raised
           /\ adapter_outcome.value.status = "healthy"
           /\ adapter_outcome.value.ffmpeg_available =
                (/\ adapter_call.run.found
                 /\ adapter_call.run.seconds <= 5
                 /\ adapter_call.run.returncode = 0)

\* a health check whose version command ran into the limit
C17_Witness ==
    /\ AdapterReturned("health")
    /\ adapter_call.run.found
    /\ adapter_call.run.seconds > 5
    /\ adapter_call.run.returncode = 0
    /\ ~adapter_outcome.value.ffmpeg_available

\* C18: a request passes through its phases in order: no external process
\* is started before every file of the batch is validated and staged, and
\* aggregation (the results, the classification, the archive, the response)
\* starts only when every job of the batch has ended.
C18_PhasesInOrder ==
    /\ (futures # << >> \/ \E i \in DOMAIN attempts : attempts[i] > 0)
            => /\ Len(input_files) = Len(files)
               /\ \A i \in DOMAIN files : IsMp3(files[i])
               /\ pc = "scheduled" => \A i \in DOMAIN input_files : input_files[i] \in DOMAIN fs
    /\ (futures # << >> /\ (response # NoResponse \/ ZipPath \in DOMAIN fs \/ pc # "scheduled"))
            => AllDone

\* a batch of three in mid-run: one job ended, one runs, one waits
C18_Witness ==
    /\ pc = "scheduled"
    /\ Len(files) = 3
    /\ futures[1].state = "done"
    /\ futures[2].state = "running"
    /\ futures[3].state = "pending"
    /\ response = NoResponse

\* C20: a request to /analyze or /normalize with an empty file list is
\* answered with HTTP 400 before any temporary directory is created and
\* before any external process is started; in /normalize the 400 does not
\* pass through the catch-all that answers 500.
C20_EmptyListRejected ==
    (endpoint \in {"analyze", "normalize"} /\ files = << >>)
        => /\ dirs = {}
           /\ DOMAIN fs = {}
           /\ futures = << >>
           /\ DOMAIN attempts = {}
           /\ pc \in {"received", "done"}
           /\ pc = "done" =>
                /\ response.status = 400
                /\ response.detail = <<"No files uploaded">>

\* an answered /normalize request without files
C20_Witness ==
    /\ endpoint = "normalize"
    /\ files = << >>
    /\ pc = "done"
    /\ response.status = 400

\* ------------------------------------------- two /normalize requests at once
\* values str(uuid.uuid4()) can take
SessionIds == {"uuid_1", "uuid_2"}
\* random suffixes tempfile.mkdtemp can append
Suffixes == {"rnd_1", "rnd_2"}

\* the directory name mkdtemp(prefix=f"<kind>_{session_id}_") tries
MkdtempName(kind, session_id, suffix) == <<"/tmp", "/", kind, session_id, "_", suffix>>

\* a directory made with os.makedirs(name, exist_ok=True): an existing one is taken over
MakedirsExistOk(ds, path) == TRUE

\* mkdtemp creates the directory itself and never returns an existing one
MkdtempCreates(ds, path) == path \notin ds

\* upload lists of the two requests: the same names in both
TwoBatches == { << <<"a", ".mp3">> >>, << <<"a", ".mp3">>, <<"track", ".wav">> >> }

Requests == {1, 2}

\* lines 151-154 for the output directory of a request
OutputPathIn(output_dir, input_path) ==
    LET filename == Basename(input_path)
        name == Splitext(filename)[1]
        ext == Splitext(filename)[2]
    IN  PathJoin(output_dir, name \o <<"_normalized">> \o ext)

\* line 173 for a request
ZipPathIn(output_dir, session_id) ==
    PathJoin(output_dir, <<"normalized_audio_", session_id, ".zip">>)

\* the staged input paths of request r
StagedPaths(r) ==
    [i \in 1..reqs[r].staged |-> PathJoin(reqs[r].input_dir, reqs[r].files[i])]

\* both rmtree calls of request r (lines 183-184 and 189-190)
Teardown(r) ==
    /\ dirs' = RmtreeDirs(RmtreeDirs(dirs, reqs[r].input_dir), reqs[r].output_dir)
    /\ fs' = RmtreeFiles(RmtreeFiles(fs, reqs[r].input_dir), reqs[r].output_dir)

TwoInit ==
    /\ reqs \in [Requests -> { [pc |-> "received", files |-> b, staged |-> 0, status |-> 0,
                                session_id |-> "", input_dir |-> << >>, output_dir |-> << >>] :
                               b \in TwoBatches }]
    /\ adapter_call = NoCall
    /\ adapter_outcome = NoOutcome
    /\ endpoint = "none"
    /\ files = << >>
    /\ pc = "requests"
    /\ dirs = {}
    /\ fs = << >>
    /\ input_files = << >>
    /\ futures = << >>
    /\ attempts = << >>
    /\ completed = << >>
    /\ response = NoResponse

singleVars == <<adapter_call, adapter_outcome, endpoint, files, pc, input_files, futures, attempts, completed, response>>

\* lines 131-133 of request r: the session id and the two directories
TwoReceive(r) ==
    /\ reqs[r].pc = "received"
    /\ \E sid \in SessionIds, s1, s2 \in Suffixes :
          LET input_dir == MkdtempName("input_", sid, s1)
              output_dir == MkdtempName("output_", sid, s2)
          IN  /\ MkdtempCreates(dirs, input_dir)
              /\ MkdtempCreates(dirs \cup {input_dir}, output_dir)
              /\ dirs' = dirs \cup {input_dir, output_dir}
              /\ reqs' = [reqs EXCEPT ![r].pc = "staging", ![r].session_id = sid,
                                      ![r].input_dir = input_dir, ![r].output_dir = output_dir]
    /\ UNCHANGED <<fs, singleVars>>

\* lines 139-147 of request r: one iteration of the staging loop
TwoStage(r) ==
    /\ reqs[r].pc = "staging"
    /\ reqs[r].staged < Len(reqs[r].files)
    /\ LET i == reqs[r].staged + 1
           filename == reqs[r].files[i]
       IN  IF ~IsMp3(filename)
           THEN /\ Teardown(r)
                /\ reqs' = [reqs EXCEPT ![r].pc = "done", ![r].status = 500]
           ELSE /\ fs' = WriteFile(fs, PathJoin(reqs[r].input_dir, filename),
                                   [upload |-> i, request |-> r])
                /\ reqs' = [reqs EXCEPT ![r].staged = i]
                /\ UNCHANGED dirs
    /\ UNCHANGED singleVars

\* the outputs the jobs of request r write when all of them succeed
RECURSIVE WriteOutputs(_, _, _, _)
WriteOutputs(f, r, paths, i) ==
    IF i > Len(paths) THEN f
    ELSE WriteOutputs(WriteFile(f, OutputPathIn(reqs[r].output_dir, paths[i]),
                                [writers |-> {i}, request |-> r]),
                      r, paths, i + 1)

\* lines 150-185 of request r: the batch runs; with successes the archive is
\* written and the file response returned, without any the catch-all runs
TwoRunBatch(r, ok) ==
    /\ reqs[r].pc = "staging"
    /\ reqs[r].staged = Len(reqs[r].files)
    /\ IF ok
       THEN LET outputs == WriteOutputs(fs, r, StagedPaths(r), 1)
                successful_files == [i \in 1..reqs[r].staged |->
                                        OutputPathIn(reqs[r].output_dir, StagedPaths(r)[i])]
            IN  /\ fs' = WriteFile(outputs, ZipPathIn(reqs[r].output_dir, reqs[r].session_id),
                                   [entries |-> ZipEntries(outputs, successful_files),
                                    request |-> r])
                /\ reqs' = [reqs EXCEPT ![r].pc = "sending", ![r].status = 200]
                /\ UNCHANGED dirs
       ELSE /\ Teardown(r)
            /\ reqs' = [reqs EXCEPT ![r].pc = "done", ![r].status = 500]
    /\ UNCHANGED singleVars

\* lines 179-185 of request r: the body is sent and the background callable runs
TwoSendComplete(r) ==
    /\ reqs[r].pc = "sending"
    /\ Teardown(r)
    /\ reqs' = [reqs EXCEPT ![r].pc = "done"]
    /\ UNCHANGED singleVars

TwoNext ==
    \/ \E r \in Requests : TwoReceive(r)
    \/ \E r \in Requests : TwoStage(r)
    \/ \E r \in Requests : \E ok \in BOOLEAN : TwoRunBatch(r, ok)
    \/ \E r \in Requests : TwoSendComplete(r)

TwoSpec == TwoInit /\ [][TwoNext]_vars

\* request r has its directories and has not torn them down
Active(r) == reqs[r].pc \in {"staging", "sending"}

\* everything request r has put on disk is there, and is its own
WorkspaceIntact(r) ==
    /\ reqs[r].input_dir \in dirs
    /\ reqs[r].output_dir \in dirs
    /\ \A i \in 1..reqs[r].staged :
            /\ StagedPaths(r)[i] \in DOMAIN fs
            /\ fs[StagedPaths(r)[i]] = [upload |-> i, request |-> r]
    /\ reqs[r].pc = "sending" =>
            /\ ZipPathIn(reqs[r].output_dir, reqs[r].session_id) \in DOMAIN fs
            /\ fs[ZipPathIn(reqs[r].output_dir, reqs[r].session_id)].request = r
            /\ \A i \in 1..reqs[r].staged :
                 LET out == OutputPathIn(reqs[r].output_dir, StagedPaths(r)[i])
                 IN  out \in DOMAIN fs /\ fs[out].request = r

\* C14: two /normalize requests processed concurrently never share a
\* workspace: their directories are distinct, and the teardown of one, on
\* success or on error, removes or alters no file of the other, also when
\* both upload files of the same names.
C14_WorkspacesIsolated ==
    /\ \A r \in DOMAIN reqs : Active(r) => WorkspaceIntact(r)
    /\ \A r, s \in DOMAIN reqs :
            (r # s /\ Active(r) /\ Active(s))
                => {reqs[r].input_dir, reqs[r].output_dir}
                     \cap {reqs[s].input_dir, reqs[s].output_dir} = {}

\* one request has torn its workspace down on its error path while the
\* other, with the same session id and the same file name, is sending
C14_Witness ==
    /\ DOMAIN reqs = Requests
    /\ reqs[1].pc = "done"
    /\ reqs[1].status = 500
    /\ reqs[1].staged = 1
    /\ reqs[2].pc = "sending"
    /\ reqs[1].session_id = reqs[2].session_id
====
